---- MODULE Spec2Model ----
(***************************************************************************)
(* taxrust / jsonl_processor: the in-memory tree store built by load_data  *)
(* and main, and the /nodes/ query pipeline of get_nodes                   *)
(* (filter_nodes -> reduce_overplotting -> add_parents -> rehydration).    *)
(*                                                                         *)
(* Numbers.  f64 coordinates are modelled by exact integers in a fixed     *)
(* unit: x_dist in whole units; a record's y in units of 1e-4 on input and *)
(* in units of 1e-6 once scale_y_coordinates has rounded it to six         *)
(* decimals.  A precision (2000.0 / (max - min)) is the fraction num/den;  *)
(* den = 0 is the IEEE value +inf that the f64 division by 0.0 produces.   *)
(* An i64 grid coordinate is <<"fin", n>>, or <<"max", 0>> / <<"min", 0>>  *)
(* for the saturated results of `inf as i64` / `-inf as i64`.              *)
(* Indices are 1-based here and 0-based in the source.                     *)
(* The fields name and clades are copied through unchanged by the source   *)
(* and are left out of the records.                                        *)
(***************************************************************************)
EXTENDS Integers, Sequences, FiniteSets

VARIABLES
    file,             \* the input file: header line and node lines
    pc,               \* main's position: "start" "loading" "serving" "exited"
    workers,          \* number of HTTP worker threads of the server
    counter,          \* load_data: number of node lines processed
    nodes,            \* Vec<Node>
    child_to_parent,  \* HashMap<i32, i32>
    root_id,          \* i32
    root_mutations,   \* Vec<i32>
    metadata_keys,    \* Vec<String>
    interning,        \* load_data: Vec<HashMap<String, i32>> (value text -> code)
    metadata_maps,    \* AppState: Vec<HashMap<i32, String>> (code -> value text)
    config,           \* the fields update_config derives from the store
    requests,         \* the parameter tuples clients send to /nodes/
    req               \* per worker: the locals of the get_nodes call it runs

vars == <<file, pc, workers, counter, nodes, child_to_parent, root_id,
          root_mutations, metadata_keys, interning, metadata_maps, config,
          requests, req>>

storeVars == <<nodes, child_to_parent, root_id, root_mutations, metadata_keys,
               metadata_maps, config>>

(***************************************************************************)
(* Bounds of the model.                                                    *)
(***************************************************************************)
MaxLines == 3
MaxTreeNodes == 3
MaxDictNodes == 3
MaxConcNodes == 3

(***************************************************************************)
(* Generic helpers.                                                        *)
(***************************************************************************)
Range(s) == {s[i] : i \in 1..Len(s)}

Abs(a) == IF a < 0 THEN -a ELSE a

Sign(a) == IF a < 0 THEN -1 ELSE IF a > 0 THEN 1 ELSE 0

EmptyMap == [k \in {} |-> 0]

MapPut(m, k, v) == [j \in (DOMAIN m) \cup {k} |-> IF j = k THEN v ELSE m[j]]

RECURSIVE SeqsUpTo(_, _)
SeqsUpTo(S, n) ==
    IF n = 0 THEN {<<>>}
    ELSE LET shorter == SeqsUpTo(S, n - 1)
         IN shorter \cup {Append(s, e) : s \in {t \in shorter : Len(t) = n - 1}, e \in S}

Perms(S) == {p \in [1..Cardinality(S) -> S] : \A a \in S : \E i \in DOMAIN p : p[i] = a}

\* f64::round of the fraction a/b (b # 0): to nearest, halves away from zero.
RoundDiv(a, b) ==
    LET q == Abs(a) \div Abs(b)
        r == Abs(a) % Abs(b)
        m == IF r >= Abs(b) - r THEN q + 1 ELSE q
    IN Sign(a) * Sign(b) * m

(***************************************************************************)
(* serde_json::Value, Value::to_string and serde_json::from_str.           *)
(* A Value is a string, an unsigned number or null; its text is a sequence *)
(* of characters.                                                          *)
(***************************************************************************)
JNull == [t |-> "null", n |-> 0, s |-> <<>>]
JNum(k) == [t |-> "num", n |-> k, s |-> <<>>]
JStr(chars) == [t |-> "str", n |-> 0, s |-> chars]

Quote == "\""
Backslash == "\\"
DigitChars == <<"0", "1", "2", "3", "4", "5", "6", "7", "8", "9">>

RECURSIVE Digits(_)
Digits(k) == IF k < 10 THEN <<DigitChars[k + 1]>>
             ELSE Append(Digits(k \div 10), DigitChars[(k % 10) + 1])

RECURSIVE Escape(_)
Escape(chars) ==
    IF chars = <<>> THEN <<>>
    ELSE LET c == Head(chars)
         IN (IF c = Quote \/ c = Backslash THEN <<Backslash, c>> ELSE <<c>>)
            \o Escape(Tail(chars))

\* Value::to_string (the JSON text of a value)
to_string(v) ==
    IF v.t = "null" THEN <<"n", "u", "l", "l">>
    ELSE IF v.t = "num" THEN Digits(v.n)
    ELSE <<Quote>> \o Escape(v.s) \o <<Quote>>

DigitValue(c) == CHOOSE d \in 0..9 : DigitChars[d + 1] = c

RECURSIVE ParseNumber(_, _)
ParseNumber(text, acc) ==
    IF text = <<>> THEN acc
    ELSE ParseNumber(Tail(text), acc * 10 + DigitValue(Head(text)))

\* the characters of a JSON string literal, from just after its opening quote
RECURSIVE Unescape(_)
Unescape(text) ==
    IF Head(text) = Quote THEN <<>>
    ELSE IF Head(text) = Backslash THEN <<text[2]>> \o Unescape(Tail(Tail(text)))
    ELSE <<Head(text)>> \o Unescape(Tail(text))

\* serde_json::from_str::<Value>(..).unwrap()
from_str(text) ==
    IF Head(text) = "n" THEN JNull
    ELSE IF Head(text) = Quote THEN JStr(Unescape(Tail(text)))
    ELSE JNum(ParseNumber(text, 0))

(***************************************************************************)
(* load_data: one node line.                                               *)
(***************************************************************************)
\* metadata_maps[i].entry(value_str).or_insert(len): the map afterwards and the code
InternReuseLast(map, value_str) ==
    LET len == Cardinality(DOMAIN map)
    IN IF value_str \in DOMAIN map THEN [map |-> map, code |-> map[value_str]]
       ELSE [map |-> MapPut(map, value_str, IF len = 0 THEN 0 ELSE len - 1),
             code |-> IF len = 0 THEN 0 ELSE len - 1]

Intern(map, value_str) ==
    LET len == Cardinality(DOMAIN map)
    IN IF value_str \in DOMAIN map THEN [map |-> map, code |-> map[value_str]]
       ELSE [map |-> MapPut(map, value_str, len), code |-> len]

\* the loop over metadata_keys: the maps afterwards and the node's meta codes
EncodeMeta(keys, maps, meta) ==
    LET present(i) == keys[i] \in DOMAIN meta
        entry(i) == Intern(maps[i], to_string(meta[keys[i]]))
    IN [maps |-> [i \in 1..Len(keys) |-> IF present(i) THEN entry(i).map ELSE maps[i]],
        codes |-> [i \in 1..Len(keys) |-> IF present(i) THEN entry(i).code ELSE -1]]

\* the Node pushed for an InitialNode
MakeNode(rec, codes) ==
    [x_dist |-> rec.x_dist,
     y |-> rec.y,
     mutations |-> IF rec.parent_id = rec.node_id THEN <<>> ELSE rec.mutations,
     parent_id |-> rec.parent_id,
     node_id |-> rec.node_id,
     num_tips |-> rec.num_tips,
     meta |-> codes]

\* child_to_parent after a record: the root is not inserted
InsertChild(c2p, rec) ==
    IF rec.parent_id = rec.node_id THEN c2p
    ELSE MapPut(c2p, rec.node_id, rec.parent_id)

(***************************************************************************)
(* main after load_data: scale_y_coordinates and update_config.            *)
(***************************************************************************)
LargeTree == 10000
\* 24e2 * 1e6 * 1e-4: the factor from an input y (1e-4 units) to 1e-6 units
ScaleLarge == 240000
\* 24e2 * 1e6 * 1e-4 / 0.6666 = ScaleSmallNum / ScaleSmallDen
ScaleSmallNum == 400000000
ScaleSmallDen == 1111

\* node.y = (node.y * scale_y * 1e6).round() / 1e6, in 1e-6 units
ScaledY(y, num_nodes) ==
    IF num_nodes > LargeTree THEN RoundDiv(y * ScaleLarge, num_nodes)
    ELSE RoundDiv(y * ScaleSmallNum, ScaleSmallDen * num_nodes)

scale_y_coordinates(ns) ==
    [i \in 1..Len(ns) |-> [ns[i] EXCEPT !.y = ScaledY(ns[i].y, Len(ns))]]

SetMin(S) == CHOOSE a \in S : \A b \in S : a <= b
SetMax(S) == CHOOSE a \in S : \A b \in S : a >= b

\* calculate_extremes; on an empty store f64::MAX + f64::MIN = 0.0 in update_config
update_config(ns, rootMutations, rootId) ==
    LET ys == {ns[i].y : i \in 1..Len(ns)}
        xs == {ns[i].x_dist : i \in 1..Len(ns)}
    IN [initial_x2 |-> IF ns = <<>> THEN 0 ELSE SetMax(xs) + SetMin(xs),
        initial_y2 |-> IF ns = <<>> THEN 0 ELSE SetMax(ys) + SetMin(ys),
        num_nodes |-> Len(ns),
        root_mutations |-> rootMutations,
        root_id |-> rootId]

\* the HashMap<String, i32> of a field turned into HashMap<i32, String>
ReverseMap(map) ==
    [c \in {map[k] : k \in DOMAIN map} |-> CHOOSE k \in DOMAIN map : map[k] = c]

(***************************************************************************)
(* get_nodes: the query pipeline.                                          *)
(***************************************************************************)
None == <<"None", 0>>
Some(v) == <<"Some", v>>

\* query.min_y.unwrap_or_else(|| ... min_by ... .unwrap_or(0.0)) and the like
EffectiveBounds(q, ns) ==
    LET ys == {ns[i].y : i \in 1..Len(ns)}
        xs == {ns[i].x_dist : i \in 1..Len(ns)}
        pick(opt, S, least) ==
            IF opt[1] = "Some" THEN opt[2]
            ELSE IF S = {} THEN 0
            ELSE IF least THEN SetMin(S) ELSE SetMax(S)
    IN [min_y |-> pick(q.min_y, ys, TRUE), max_y |-> pick(q.max_y, ys, FALSE),
        min_x |-> pick(q.min_x, xs, TRUE), max_x |-> pick(q.max_x, xs, FALSE)]

\* nodes.iter().enumerate(): the indices of the store, in storage order
Indices(ns) == [i \in 1..Len(ns) |-> i]

filter_nodes(ns, min_y, max_y) ==
    LET keep(i) == ns[i].y >= min_y /\ ns[i].y <= max_y
    IN SelectSeq(Indices(ns), keep)

\* 2000.0 / (max - min): den = 0 stands for +inf
get_precision(min, max) == [num |-> 2000, den |-> max - min]

\* precision_x / 5.0
DivideBy5(p) == [num |-> p.num, den |-> p.den * 5]

I64Max == <<"max", 0>>
I64Min == <<"min", 0>>

\* (v * precision).round() as i64; inf * 0.0 is NaN and NaN as i64 is 0
RoundedCell(v, p) ==
    IF p.den = 0
    THEN IF v > 0 THEN I64Max ELSE IF v < 0 THEN I64Min ELSE <<"fin", 0>>
    ELSE <<"fin", RoundDiv(v * p.num, p.den)>>

\* the grid cell (rounded_x, rounded_y) of a node; both branches of the x_type
\* test read x_dist, so x_type has no part in it
CellKey(node, precision_x, precision_y) ==
    <<RoundedCell(node.x_dist, DivideBy5(precision_x)), RoundedCell(node.y, precision_y)>>

RECURSIVE ReduceKeepLast(_, _, _, _)
ReduceKeepLast(cands, precision_x, precision_y, ns) ==
    IF cands = <<>> THEN <<>>
    ELSE LET idx == Head(cands)
             cell == CellKey(ns[idx], precision_x, precision_y)
             later == \E j \in 2..Len(cands) :
                          CellKey(ns[cands[j]], precision_x, precision_y) = cell
             rest == ReduceKeepLast(Tail(cands), precision_x, precision_y, ns)
         IN IF later THEN rest ELSE <<idx>> \o rest

\* the filter closure of reduce_overplotting over the candidates still to visit;
\* included_points (x cell -> set of y cells) is kept as the set of cells seen
RECURSIVE ReduceFrom(_, _, _, _, _)
ReduceFrom(cands, included_points, precision_x, precision_y, ns) ==
    IF cands = <<>> THEN <<>>
    ELSE LET idx == Head(cands)
             cell == CellKey(ns[idx], precision_x, precision_y)
             rest == ReduceFrom(Tail(cands), included_points \cup {cell},
                                precision_x, precision_y, ns)
         IN IF cell \in included_points THEN rest ELSE <<idx>> \o rest

reduce_overplotting(cands, precision_x, precision_y, ns) ==
    ReduceFrom(cands, {}, precision_x, precision_y, ns)

LeafCandidatesUnfiltered(ns, min_y, max_y) == filter_nodes(ns, min_y, max_y)

\* filtered.into_iter().filter(|&idx| data.nodes[idx].num_tips == 1)
LeafCandidates(ns, min_y, max_y) ==
    LET isLeaf(i) == ns[i].num_tips = 1
    IN SelectSeq(filter_nodes(ns, min_y, max_y), isLeaf)

\* the reduced_leaves of a request
ReducedLeaves(q, ns) ==
    LET b == EffectiveBounds(q, ns)
    IN reduce_overplotting(LeafCandidates(ns, b.min_y, b.max_y),
                           get_precision(b.min_x, b.max_x),
                           get_precision(b.min_y, b.max_y), ns)

\* add_parents: selected_node_ids as first collected
SeedIds(ns, filtered) == {ns[filtered[k]].node_id : k \in 1..Len(filtered)}

WorkListStepNoPush(selected, to_process, c2p) ==
    LET node_id == to_process[Len(to_process)]
        rest == SubSeq(to_process, 1, Len(to_process) - 1)
    IN IF node_id \in DOMAIN c2p /\ c2p[node_id] \notin selected
       THEN [selected |-> selected \cup {c2p[node_id]}, to_process |-> rest]
       ELSE [selected |-> selected, to_process |-> rest]

WorkListStepNoGuard(selected, to_process, c2p) ==
    LET node_id == to_process[Len(to_process)]
        rest == SubSeq(to_process, 1, Len(to_process) - 1)
    IN IF node_id \in DOMAIN c2p
       THEN [selected |-> selected \cup {c2p[node_id]},
             to_process |-> Append(rest, c2p[node_id])]
       ELSE [selected |-> selected, to_process |-> rest]

\* add_parents: one iteration of `while let Some(node_id) = to_process.pop()`
WorkListStep(selected, to_process, c2p) ==
    LET node_id == to_process[Len(to_process)]
        rest == SubSeq(to_process, 1, Len(to_process) - 1)
    IN IF node_id \in DOMAIN c2p /\ c2p[node_id] \notin selected
       THEN [selected |-> selected \cup {c2p[node_id]},
             to_process |-> Append(rest, c2p[node_id])]
       ELSE [selected |-> selected, to_process |-> rest]

RECURSIVE SortedByNodeId(_, _)
SortedByNodeId(ns, S) ==
    IF S = {} THEN <<>>
    ELSE LET i == CHOOSE a \in S : \A b \in S : ns[a].node_id <= ns[b].node_id
         IN <<i>> \o SortedByNodeId(ns, S \ {i})

CollectResultByNodeId(ns, selected) ==
    SortedByNodeId(ns, {i \in 1..Len(ns) : ns[i].node_id \in selected})

\* add_parents: the result, the indices of the selected nodes in storage order
CollectResult(ns, selected) ==
    LET keep(i) == ns[i].node_id \in selected
    IN SelectSeq(Indices(ns), keep)

\* get_nodes: the meta of a response record, decoded from the node's codes
RehydrateMeta(node, keys, maps) ==
    LET set == {i \in 1..Len(keys) : node.meta[i] # -1}
    IN [k \in {keys[i] : i \in set} |->
           LET i == CHOOSE j \in set : keys[j] = k
           IN from_str(maps[i][node.meta[i]])]

\* get_nodes: the InitialNode built for a node of the result
ResponseRecord(node, keys, maps) ==
    [x_dist |-> node.x_dist,
     y |-> node.y,
     mutations |-> node.mutations,
     parent_id |-> node.parent_id,
     node_id |-> node.node_id,
     num_tips |-> node.num_tips,
     meta |-> RehydrateMeta(node, keys, maps)]

(***************************************************************************)
(* Input files and requests.                                               *)
(***************************************************************************)
NoMeta == [k \in {} |-> JNull]

Rec(id, parent, x, y, tips, meta) ==
    [valid |-> TRUE, node_id |-> id, parent_id |-> parent, x_dist |-> x, y |-> y,
     num_tips |-> tips, mutations |-> <<id>>, meta |-> meta]

\* a line that serde_json::from_str::<InitialNode> rejects
BadLine ==
    [valid |-> FALSE, node_id |-> 0, parent_id |-> 0, x_dist |-> 0, y |-> 0,
     num_tips |-> 0, mutations |-> <<>>, meta |-> NoMeta]

File(header, lines) == [header |-> header, lines |-> lines]

FailFiles == {File("absent", <<>>), File("bad", <<>>), File("ok", <<BadLine>>)}

Q(min_y, max_y, min_x, max_x) ==
    [min_y |-> min_y, max_y |-> max_y, min_x |-> min_x, max_x |-> max_x]

\* arbitrary record streams: duplicate ids, several or no roots, dangling parents
\* (id 3 names no node), parent cycles, undecodable lines
AnyLines ==
    {Rec(id, p, id, id, t, NoMeta) : id \in {1, 2}, p \in {1, 2, 3}, t \in {1, 2}}
    \cup {BadLine}

AnyFile(f) ==
    \/ \E ls \in SeqsUpTo(AnyLines, MaxLines) : f = File("ok", ls)
    \/ f \in FailFiles

AnyRequests ==
    {Q(None, None, None, None), Q(Some(0), Some(1000000000), Some(0), Some(1000))}

\* well-formed trees: position i holds node IdAt(i); par[i] is the position of
\* the parent; num_tips is the number of leaves below the node
IdAt(i) == <<3, 1, 4, 2, 5, 7, 6>>[i]

RECURSIVE Up(_, _, _)
Up(par, i, k) == IF k = 0 THEN i ELSE Up(par, par[i], k - 1)

IsRootedTree(par) ==
    LET n == Len(par)
    IN /\ Cardinality({i \in 1..n : par[i] = i}) = 1
       /\ \A i \in 1..n : par[Up(par, i, n)] = Up(par, i, n)

TipsBelow(par, i) ==
    LET n == Len(par)
        leaves == {l \in 1..n : \A c \in 1..n : c = l \/ par[c] # l}
    IN Cardinality({l \in leaves : \E k \in 0..n : Up(par, l, k) = i})

TreeFile(par, xs, ys) ==
    File("ok", [i \in 1..Len(par) |->
                   Rec(IdAt(i), IdAt(par[i]), xs[i], ys[i], TipsBelow(par, i), NoMeta)])

IsTreeFile(f, max, Xs, Ys) ==
    \/ \E n \in 1..max :
         \E par \in [1..n -> 1..n] :
            /\ IsRootedTree(par)
            /\ \E xs \in [1..n -> Xs], ys \in [1..n -> Ys] : f = TreeFile(par, xs, ys)
    \/ f \in FailFiles

BoundedTreeFile(f) == IsTreeFile(f, MaxTreeNodes, {1, 2}, {0, 1})

TreeRequests ==
    {Q(None, None, None, None),
     Q(Some(0), Some(1000000000), Some(0), Some(1000)),
     Q(Some(0), Some(0), None, None),
     Q(Some(100000), None, Some(1), Some(1))}

ConcFile(f) == IsTreeFile(f, MaxConcNodes, {1}, {0, 1})

ConcRequests ==
    {Q(None, None, None, None), Q(Some(100000), None, None, None)}

\* a root and its children, with attribute fields a and b drawn freely
DictValuesA == {JStr(<<"1">>), JNum(1), JStr(<<Quote, Backslash>>)}
DictValuesB == {JNum(10), JNull}

DictMetas ==
    {NoMeta}
    \cup {[k \in {"a"} |-> a] : a \in DictValuesA}
    \cup {[k \in {"b"} |-> b] : b \in DictValuesB}
    \cup {[k \in {"a", "b"} |-> IF k = "a" THEN a ELSE b] :
             a \in DictValuesA, b \in DictValuesB}

DictFile(f) ==
    \/ \E n \in 1..MaxDictNodes :
         \E ms \in [1..n -> DictMetas] :
            f = File("ok", [i \in 1..n |->
                              Rec(i, 1, i, i - 1,
                                  IF i = 1 /\ n > 1 THEN n - 1 ELSE 1, ms[i])])
    \/ f \in FailFiles

DictRequests == {Q(None, None, None, None)}

(***************************************************************************)
(* The state machine.                                                      *)
(***************************************************************************)
NoQuery == Q(None, None, None, None)

IdleRequest ==
    [phase |-> "idle", query |-> NoQuery, reduced_leaves |-> <<>>,
     selected_node_ids |-> {}, to_process |-> <<>>, result |-> <<>>,
     response |-> <<>>]

InitWith(threads, rqs) ==
    /\ pc = "start"
    /\ workers = threads
    /\ requests = rqs
    /\ counter = 0
    /\ nodes = <<>>
    /\ child_to_parent = EmptyMap
    /\ root_id = 0
    /\ root_mutations = <<>>
    /\ metadata_keys = <<>>
    /\ interning = <<>>
    /\ metadata_maps = <<>>
    /\ config = update_config(<<>>, <<>>, 0)
    /\ req = [w \in 1..threads |-> IdleRequest]

Init == AnyFile(file) /\ InitWith(1, AnyRequests)
InitTree == BoundedTreeFile(file) /\ InitWith(1, TreeRequests)
InitDict == DictFile(file) /\ InitWith(1, DictRequests)
InitConc == ConcFile(file) /\ InitWith(2, ConcRequests)

inputVars == <<file, workers, requests>>
loadVars == <<counter, nodes, child_to_parent, root_id, root_mutations,
              metadata_keys, interning>>

\* load_data returns Err and main's expect panics: the locals are dropped
Exit ==
    /\ pc' = "exited"
    /\ counter' = 0
    /\ nodes' = <<>>
    /\ child_to_parent' = EmptyMap
    /\ root_id' = 0
    /\ root_mutations' = <<>>
    /\ metadata_keys' = <<>>
    /\ interning' = <<>>
    /\ UNCHANGED <<inputVars, metadata_maps, config, req>>

\* lines.next().ok_or("Empty file")
EmptyFile ==
    /\ pc = "start"
    /\ file.header = "absent"
    /\ Exit

\* serde_json::from_str::<Metadata>(&metadata_line)?
BadMetadata ==
    /\ pc = "start"
    /\ file.header = "bad"
    /\ Exit

ReadMetadata ==
    /\ pc = "start"
    /\ file.header = "ok"
    /\ pc' = "loading"
    /\ UNCHANGED <<inputVars, loadVars, metadata_maps, config, req>>

\* serde_json::from_str::<InitialNode>(&line)?
BadNodeLine ==
    /\ pc = "loading"
    /\ counter < Len(file.lines)
    /\ ~file.lines[counter + 1].valid
    /\ Exit

\* one iteration of `for line in lines`
ProcessNode ==
    /\ pc = "loading"
    /\ counter < Len(file.lines)
    /\ file.lines[counter + 1].valid
    /\ LET rec == file.lines[counter + 1]
       IN \E keys \in (IF counter = 0 THEN Perms(DOMAIN rec.meta) ELSE {metadata_keys}) :
            LET maps == IF counter = 0 THEN [i \in 1..Len(keys) |-> EmptyMap]
                        ELSE interning
                enc == EncodeMeta(keys, maps, rec.meta)
                isRoot == rec.parent_id = rec.node_id
            IN /\ metadata_keys' = keys
               /\ interning' = enc.maps
               /\ root_mutations' = IF isRoot THEN rec.mutations ELSE root_mutations
               /\ root_id' = IF isRoot THEN rec.node_id ELSE root_id
               /\ child_to_parent' = InsertChild(child_to_parent, rec)
               /\ nodes' = Append(nodes, MakeNode(rec, enc.codes))
               /\ counter' = counter + 1
    /\ UNCHANGED <<inputVars, pc, metadata_maps, config, req>>

\* the end of load_data, then main: scale_y_coordinates, update_config, AppState,
\* HttpServer::run (a failing bind is left out)
StartServer ==
    /\ pc = "loading"
    /\ counter = Len(file.lines)
    /\ metadata_maps' = [i \in 1..Len(interning) |-> ReverseMap(interning[i])]
    /\ nodes' = scale_y_coordinates(nodes)
    /\ config' = update_config(scale_y_coordinates(nodes), root_mutations, root_id)
    /\ pc' = "serving"
    /\ UNCHANGED <<inputVars, counter, child_to_parent, root_id, root_mutations,
                   metadata_keys, interning, req>>

\* get_nodes up to the start of the work-list loop of add_parents; to_process is
\* collected from a HashSet and has any order
BeginRequest(w) ==
    /\ pc = "serving"
    /\ req[w].phase \in {"idle", "done"}
    /\ \E q \in requests :
         LET reduced == ReducedLeaves(q, nodes)
             seed == SeedIds(nodes, reduced)
         IN \E order \in Perms(seed) :
              req' = [req EXCEPT ![w] =
                        [phase |-> "closure", query |-> q, reduced_leaves |-> reduced,
                         selected_node_ids |-> seed, to_process |-> order,
                         result |-> <<>>, response |-> <<>>]]
    /\ UNCHANGED <<inputVars, pc, loadVars, metadata_maps, config>>

ClosureStep(w) ==
    /\ pc = "serving"
    /\ req[w].phase = "closure"
    /\ req[w].to_process # <<>>
    /\ LET next == WorkListStep(req[w].selected_node_ids, req[w].to_process,
                                child_to_parent)
       IN req' = [req EXCEPT ![w].selected_node_ids = next.selected,
                             ![w].to_process = next.to_process]
    /\ UNCHANGED <<inputVars, pc, loadVars, metadata_maps, config>>

\* add_parents after the loop, then the conversion to InitialNode records
Respond(w) ==
    /\ pc = "serving"
    /\ req[w].phase = "closure"
    /\ req[w].to_process = <<>>
    /\ LET result == CollectResult(nodes, req[w].selected_node_ids)
       IN req' = [req EXCEPT ![w].phase = "done",
                             ![w].result = result,
                             ![w].response =
                                 [k \in 1..Len(result) |->
                                     ResponseRecord(nodes[result[k]], metadata_keys,
                                                    metadata_maps)]]
    /\ UNCHANGED <<inputVars, pc, loadVars, metadata_maps, config>>

Next ==
    \/ EmptyFile
    \/ BadMetadata
    \/ ReadMetadata
    \/ BadNodeLine
    \/ ProcessNode
    \/ StartServer
    \/ \E w \in 1..workers : BeginRequest(w)
    \/ \E w \in 1..workers : ClosureStep(w)
    \/ \E w \in 1..workers : Respond(w)

Spec == Init /\ [][Next]_vars
SpecTree == InitTree /\ [][Next]_vars
SpecDict == InitDict /\ [][Next]_vars
SpecConc == InitConc /\ [][Next]_vars

\* a worker thread that is inside get_nodes keeps running: the handler has no
\* await point and nothing blocks it
SpecLive == Init /\ [][Next]_vars /\ WF_vars(ClosureStep(1)) /\ WF_vars(Respond(1))

(***************************************************************************)
(* Properties.                                                             *)
(***************************************************************************)
Workers == 1..workers
Active(w) == pc = "serving" /\ req[w].phase # "idle"
Done(w) == pc = "serving" /\ req[w].phase = "done"
ResponseIds(w) == {req[w].response[k].node_id : k \in 1..Len(req[w].response)}
Increasing(s) == \A i, j \in 1..Len(s) : i < j => s[i] < s[j]

\* the input is a tree: unique node_ids, exactly one root, every other parent_id
\* names a node, and every node reaches the root
WellFormedTree ==
    LET ls == file.lines
        n == Len(ls)
        at(id) == CHOOSE i \in 1..n : ls[i].node_id = id
        RECURSIVE climb(_, _)
        climb(i, k) == IF k = 0 THEN i ELSE climb(at(ls[i].parent_id), k - 1)
    IN /\ file.header = "ok"
       /\ n > 0
       /\ \A i \in 1..n : ls[i].valid
       /\ \A i, j \in 1..n : ls[i].node_id = ls[j].node_id => i = j
       /\ Cardinality({i \in 1..n : ls[i].parent_id = ls[i].node_id}) = 1
       /\ \A i \in 1..n : \E j \in 1..n : ls[j].node_id = ls[i].parent_id
       /\ \A i \in 1..n : ls[climb(i, n)].parent_id = ls[climb(i, n)].node_id

\* the ids on the path from id up to the root of the loaded tree, id excluded
RECURSIVE PathToRoot(_, _)
PathToRoot(id, fuel) ==
    LET i == CHOOSE j \in 1..Len(nodes) : nodes[j].node_id = id
        p == nodes[i].parent_id
    IN IF p = id \/ fuel = 0 THEN {} ELSE {p} \cup PathToRoot(p, fuel - 1)

Ancestors(id) == PathToRoot(id, Len(nodes))

\* C1: for a store built from a well-formed tree and any query, every returned
\* node that is not the root has its parent in the same response, and so has its
\* whole path to the root there.
C1_ClosureComplete ==
    \A w \in Workers :
        (Done(w) /\ WellFormedTree) =>
            \A k \in 1..Len(req[w].response) :
                LET n == req[w].response[k]
                IN n.parent_id # n.node_id =>
                      /\ n.parent_id \in ResponseIds(w)
                      /\ Ancestors(n.node_id) \subseteq ResponseIds(w)

\* a response that holds a leaf, its parent and its grandparent
C1_Witness ==
    \E w \in Workers :
        /\ Done(w) /\ WellFormedTree
        /\ \E k \in 1..Len(req[w].response) :
              LET n == req[w].response[k]
              IN /\ n.num_tips = 1
                 /\ Cardinality(Ancestors(n.node_id)) >= 2
                 /\ n.node_id \in SeedIds(nodes, req[w].reduced_leaves)

\* C2: whenever the response to a query against a loaded store holds a node, it
\* holds the root, the node whose parent_id equals its node_id.
C2_RootPresent ==
    \A w \in Workers :
        (Done(w) /\ req[w].response # <<>>) =>
            \E k \in 1..Len(req[w].response) :
                req[w].response[k].parent_id = req[w].response[k].node_id

\* the leaf candidates and the cell keys of a request, from its parameters
Bounds(w) == EffectiveBounds(req[w].query, nodes)
Candidates(w) == LeafCandidates(nodes, Bounds(w).min_y, Bounds(w).max_y)
Keys(w) ==
    LET b == Bounds(w)
        precision_x == get_precision(b.min_x, b.max_x)
        precision_y == get_precision(b.min_y, b.max_y)
    IN [i \in 1..Len(nodes) |-> CellKey(nodes[i], precision_x, precision_y)]

\* C3: reduce_overplotting retains, in storage order, exactly the candidates that
\* are the first of their grid cell: one node per occupied cell, no two retained
\* nodes in one cell, every occupied cell represented.
C3_FirstOccurrenceWins ==
    \A w \in Workers :
        Active(w) =>
            LET cand == Range(Candidates(w))
                kept == Range(req[w].reduced_leaves)
                key == Keys(w)
            IN /\ Increasing(req[w].reduced_leaves)
               /\ kept \subseteq cand
               /\ \A i \in cand :
                     i \in kept <=> ~\E j \in cand : j < i /\ key[j] = key[i]
               /\ \A i, j \in kept : key[i] = key[j] => i = j
               /\ \A i \in cand : \E j \in kept : key[j] = key[i]

\* a request where a later candidate was dropped for an earlier one of its cell
\* while another cell kept its own node
C3_Witness ==
    \E w \in Workers :
        /\ Active(w)
        /\ Len(req[w].reduced_leaves) < Len(Candidates(w))
        /\ \E i \in Range(Candidates(w)) : i \notin Range(req[w].reduced_leaves)

Degenerate(w) ==
    Bounds(w).max_x = Bounds(w).min_x \/ Bounds(w).max_y = Bounds(w).min_y

\* C4: with max_x = min_x or max_y = min_y the precision is a large finite
\* number, and candidate leaves at distinct coordinates fall in distinct cells:
\* none of them is dropped for another.
C4_DegenerateViewportKeepsPoints ==
    \A w \in Workers :
        (Active(w) /\ Degenerate(w)) =>
            LET key == Keys(w)
            IN \A i, j \in Range(Candidates(w)) :
                  (nodes[i].x_dist # nodes[j].x_dist \/ nodes[i].y # nodes[j].y) =>
                      key[i] # key[j]

\* the columns of the slate fixed by the first record
Slate == IF file.lines = <<>> THEN {} ELSE DOMAIN file.lines[1].meta
Column(key) == CHOOSE c \in 1..Len(metadata_keys) : metadata_keys[c] = key

\* C5: every slate field a node had set decodes, at response time, to the node's
\* original value; an absent field is stored as -1 and left out of the record;
\* within a field equal values share a code and distinct values differ in code.
C5_DictionaryRoundTrip ==
    pc = "serving" =>
        /\ Range(metadata_keys) = Slate
        /\ \A i \in 1..Len(nodes) : \A key \in Slate :
              LET orig == file.lines[i].meta
              IN /\ (key \notin DOMAIN orig) <=> (nodes[i].meta[Column(key)] = -1)
                 /\ \A j \in 1..Len(nodes) :
                       (key \in DOMAIN orig /\ key \in DOMAIN file.lines[j].meta) =>
                           ((nodes[i].meta[Column(key)] = nodes[j].meta[Column(key)])
                              <=> (orig[key] = file.lines[j].meta[key]))
        /\ \A w \in Workers :
              req[w].phase = "done" =>
                 \A k \in 1..Len(req[w].response) :
                    LET orig == file.lines[req[w].result[k]].meta
                        got == req[w].response[k].meta
                    IN /\ DOMAIN got = (DOMAIN orig) \cap Slate
                       /\ \A key \in DOMAIN got : got[key] = orig[key]

\* a response with a node that has two fields decoded, one of them a string that
\* needs escaping, and a node that lacks a slate field
C5_Witness ==
    \E w \in Workers :
        /\ Done(w)
        /\ \E k \in 1..Len(req[w].response) :
              /\ DOMAIN req[w].response[k].meta = {"a", "b"}
              /\ req[w].response[k].meta["a"] = JStr(<<Quote, Backslash>>)
        /\ \E k \in 1..Len(req[w].response) : DOMAIN req[w].response[k].meta # Slate
        /\ \E i, j \in 1..Len(nodes) :
              nodes[i].meta # nodes[j].meta /\ -1 \notin Range(nodes[i].meta)
                 /\ -1 \notin Range(nodes[j].meta)

\* C6: an input with no records to build nodes from, or with a record that does
\* not decode, never gets to serve queries; a serving store was built from the
\* complete record stream.
C6_LoadAllOrNothing ==
    pc = "serving" =>
        /\ file.header = "ok"
        /\ file.lines # <<>>
        /\ \A i \in 1..Len(file.lines) : file.lines[i].valid
        /\ Len(nodes) = Len(file.lines)

\* C7: a store with two records of one node_id, or with a non-root node whose
\* parent_id names no node, does not serve queries.
C7_IntegrityViolationsRefused ==
    pc = "serving" =>
        /\ \A i, j \in 1..Len(nodes) : nodes[i].node_id = nodes[j].node_id => i = j
        /\ \A i \in 1..Len(nodes) :
              \E j \in 1..Len(nodes) : nodes[j].node_id = nodes[i].parent_id

C9_Deterministic ==
    \A w1, w2 \in Workers :
        (Done(w1) /\ Done(w2) /\ req[w1].query = req[w2].query) =>
            /\ req[w1].response = req[w2].response
            /\ Increasing(req[w1].result)

C9_StoreUntouched == pc = "serving" => UNCHANGED <<storeVars, pc>>

\* C9: two requests with the same parameters, run one after the other or
\* interleaved, return the same node sequence, in storage order; a query leaves
\* nodes, child_to_parent, the dictionaries and config unchanged.
C9_QueryDeterminism == []C9_Deterministic /\ [][C9_StoreUntouched]_vars

\* two workers hold the response to the same parameters, with several nodes
C9_Witness ==
    /\ workers = 2
    /\ Done(1) /\ Done(2)
    /\ req[1].query = req[2].query
    /\ Len(req[1].response) >= 2

Popped(r) == r.selected_node_ids \ Range(r.to_process)

\* one iteration of the work-list loop of worker w
LoopIteration(w) ==
    /\ req[w].phase = "closure"
    /\ req'[w].phase = "closure"
    /\ req'[w] # req[w]

\* every iteration of the work-list loop retires one more id for good, and pushes
\* an id only when that id first enters the selected set
C10_PushedOnce ==
    [][\A w \in Workers :
          LoopIteration(w) =>
              LET old == req[w]
                  new == req'[w]
              IN /\ Popped(old) \subseteq Popped(new)
                 /\ Cardinality(Popped(new)) = Cardinality(Popped(old)) + 1
                 /\ Range(new.to_process) \subseteq new.selected_node_ids
                 /\ Len(new.to_process) = Cardinality(Range(new.to_process))
                 /\ Len(new.to_process) >= Len(old.to_process) =>
                       /\ new.to_process[Len(new.to_process)] \notin old.selected_node_ids
                       /\ new.selected_node_ids =
                             old.selected_node_ids
                                \cup {new.to_process[Len(new.to_process)]}]_vars

\* C10: for any child_to_parent, cyclic or not, and any seed set, the work-list
\* loop of add_parents ends; an id is pushed only when it first enters the selected
\* set, so no id is pushed twice and the iterations number at most the ids reached.
C10_ClosureTerminates ==
    /\ C10_PushedOnce
    /\ \A w \in {1} : (req[w].phase = "closure") ~> (req[w].phase = "done")

\* the loop has ended on a child_to_parent with a cycle, having followed it
C10_Witness ==
    \E w \in Workers :
        /\ Done(w)
        /\ \E a, b \in DOMAIN child_to_parent :
              /\ a # b
              /\ child_to_parent[a] = b /\ child_to_parent[b] = a
              /\ {a, b} \subseteq req[w].selected_node_ids
              /\ Len(req[w].reduced_leaves) = 1

====
